---- MODULE Spec2Model ----
(***************************************************************************)
(* __sfp_handle_exceptions of libgcc/config/sh/sfp-exceptions.c.           *)
(*                                                                         *)
(* The routine tests the five exception bits of its argument in the order  *)
(* of the source text and, for each bit that is set, executes one FPU      *)
(* instruction on fixed operands.  The state is the FPU status (sticky     *)
(* flag field, list of delivered traps), the position of the routine, and  *)
(* history variables recording the instructions executed.                  *)
(*                                                                         *)
(* The FPU instructions are modelled by what they compute: the exact       *)
(* quotient or product of the operands of the source, classified by the    *)
(* IEEE-754 rules in a binary format of reduced precision and exponent     *)
(* range.  All operands of the source are non-negative, so values carry    *)
(* no sign.                                                                *)
(***************************************************************************)
EXTENDS Integers, Sequences, FiniteSets

VARIABLES
    fpu,      \* build configuration: "full", "sh2e" or "none"
    enable,   \* FPSCR enable field: the kinds whose trap is enabled
    flag,     \* FPSCR flag field: the sticky exception flags
    traps,    \* the traps delivered so far, in order
    pc,       \* position of the routine
    fex,      \* the argument _fex of the current invocation
    flag0,    \* history: flag field on entry of the current invocation
    trace,    \* history: kinds whose instruction executed in this invocation
    rep,      \* history: this invocation repeats the mask of the previous one
    ncalls    \* number of invocations made

vars == <<fpu, enable, flag, traps, pc, fex, flag0, trace, rep, ncalls>>

----------------------------------------------------------------------------
(* Bounds *)

MaxCalls == 2      \* invocations made in sequence
MaxExtra == 1      \* bits of the mask outside the five kinds
Prec == 3          \* significand bits of the reduced binary format
Emax == 3          \* largest exponent of the reduced binary format

----------------------------------------------------------------------------
(* Exception kinds and their bits in the mask *)

Kinds == {"inexact", "underflow", "overflow", "divzero", "invalid"}

FP_EX_INEXACT == 4
FP_EX_UNDERFLOW == 8
FP_EX_OVERFLOW == 16
FP_EX_DIVZERO == 32
FP_EX_INVALID == 64

Bit(k) ==
    CASE k = "inexact" -> FP_EX_INEXACT
      [] k = "underflow" -> FP_EX_UNDERFLOW
      [] k = "overflow" -> FP_EX_OVERFLOW
      [] k = "divzero" -> FP_EX_DIVZERO
      [] k = "invalid" -> FP_EX_INVALID

RECURSIVE Pow2(_)
Pow2(n) == IF n = 0 THEN 1 ELSE 2 * Pow2(n - 1)

\* Bit positions the five kinds leave free: 0, 1, 7, 8, ...
ExtraPos(i) == IF i < 2 THEN i ELSE i + 5

ExtraBits == {Pow2(ExtraPos(i)) : i \in 0 .. MaxExtra - 1}

RECURSIVE SumOf(_)
SumOf(S) ==
    IF S = {} THEN 0
    ELSE LET x == CHOOSE y \in S : TRUE IN x + SumOf(S \ {x})

\* Every value of the argument over the modelled bits.
Masks ==
    {SumOf({Bit(k) : k \in K}) + SumOf(E) : K \in SUBSET Kinds, E \in SUBSET ExtraBits}

\* _fex & FP_EX_xxx
RequestedLowBits(m, bit) == m % (2 * bit) # 0

Requested(m, bit) == (m \div bit) % 2 = 1

KindsOf(m) == {k \in Kinds : (m \div Bit(k)) % 2 = 1}

----------------------------------------------------------------------------
(* The FPU instructions.  A finite value is a number of units, the unit    *)
(* being the smallest subnormal 2^(Emin - Prec + 1), Emin = 1 - Emax.      *)

Scale == Prec + Emax - 2                \* 1.0 is 2^Scale units
MinNormal == Pow2(Prec - 1)             \* 2^Emin, in units
MaxFinite == (Pow2(Prec) - 1) * Pow2(2 * Emax - 1)

Fin(n) == [cls |-> "fin", mag |-> n]
Inf == [cls |-> "inf", mag |-> 0]

\* The operands of the source.
One == Fin(Pow2(Scale))
Three == Fin(3 * Pow2(Scale))
Ten == Fin(10 * Pow2(Scale))
Zero == Fin(0)
LDBL_MIN == Fin(MinNormal)
LDBL_MAX == Fin(MaxFinite)
HUGE_VAL == Inf

\* n units is a value of the format: subnormal, or a Prec-bit significand
\* times a power of two, at most the largest finite value.
RECURSIVE FitsSignificand(_)
FitsSignificand(n) ==
    IF n < Pow2(Prec) THEN TRUE
    ELSE IF n % 2 = 1 THEN FALSE
    ELSE FitsSignificand(n \div 2)

Representable(n) == n <= MaxFinite /\ FitsSignificand(n)

\* Exceptions of rounding the exact result num/den units (round to nearest).
RoundExceptions(num, den) ==
    LET exact == num % den = 0 /\ Representable(num \div den)
        over == 2 * num >= den * (Pow2(Prec + 1) - 1) * Pow2(2 * Emax - 1)
        tiny == num > 0 /\ num < den * MinNormal
    IN  (IF over THEN {"overflow", "inexact"} ELSE {})
        \cup (IF tiny /\ ~exact THEN {"underflow"} ELSE {})
        \cup (IF ~exact THEN {"inexact"} ELSE {})

\* fmul: the exceptions of a * b.
FMul(a, b) ==
    IF a.cls = "nan" \/ b.cls = "nan" THEN {}
    ELSE IF a.cls = "inf" \/ b.cls = "inf"
    THEN IF (a.cls = "fin" /\ a.mag = 0) \/ (b.cls = "fin" /\ b.mag = 0)
         THEN {"invalid"} ELSE {}
    ELSE RoundExceptions(a.mag * b.mag, Pow2(Scale))

\* fdiv with the test of a zero divisor left out.
FDivNoZeroCheck(a, b) ==
    IF a.cls = "nan" \/ b.cls = "nan" THEN {}
    ELSE IF a.cls = "inf" THEN (IF b.cls = "inf" THEN {"invalid"} ELSE {})
    ELSE IF b.cls = "inf" \/ b.mag = 0 THEN {}
    ELSE RoundExceptions(a.mag * Pow2(Scale), b.mag)

\* fdiv: the exceptions of a / b.
FDiv(a, b) ==
    IF a.cls = "nan" \/ b.cls = "nan" THEN {}
    ELSE IF a.cls = "inf" THEN (IF b.cls = "inf" THEN {"invalid"} ELSE {})
    ELSE IF b.cls = "inf" THEN {}
    ELSE IF b.mag = 0 THEN (IF a.mag = 0 THEN {"invalid"} ELSE {"divzero"})
    ELSE RoundExceptions(a.mag * Pow2(Scale), b.mag)

\* The instruction of each kind, on the operands of the source.
Raised(k) ==
    CASE k = "inexact" -> FDiv(One, Three)
      [] k = "underflow" -> FDiv(LDBL_MIN, Ten)
      [] k = "overflow" -> FMul(LDBL_MAX, LDBL_MAX)
      [] k = "divzero" -> FDiv(One, Zero)
      [] k = "invalid" -> FMul(HUGE_VAL, Zero)

----------------------------------------------------------------------------
(* FPU status update and trap delivery *)

Configs == {"full", "sh2e", "none"}

\* Settings of the FPSCR enable field: no trap enabled (flags only), the
\* traps of overflow, divide by zero and invalid enabled, every trap enabled.
EnableFields == {{}, {"overflow", "divzero", "invalid"}, Kinds}

\* The flag field with the raised kinds overwriting it.
SetFlagsOverwrite(f, raised) == raised

\* The flag field with the raised kinds toggled.
SetFlagsToggle(f, raised) == (f \ raised) \cup (raised \ f)

\* The flag field is sticky: raised kinds accumulate.
SetFlags(f, raised) == f \cup raised

\* The one trap delivered when several enabled kinds are raised at once.
TrapKind(S) ==
    IF "invalid" \in S THEN "invalid"
    ELSE IF "divzero" \in S THEN "divzero"
    ELSE IF "overflow" \in S THEN "overflow"
    ELSE IF "underflow" \in S THEN "underflow"
    ELSE "inexact"

----------------------------------------------------------------------------
(* __sfp_handle_exceptions *)

\* The test following the test of kind k, in the reverse of the source order
\* for overflow and divide by zero.
SuccSwapped(k) ==
    CASE k = "inexact" -> "underflow"
      [] k = "underflow" -> "divzero"
      [] k = "divzero" -> "overflow"
      [] k = "overflow" -> "invalid"
      [] k = "invalid" -> "ret"

\* The test following the test of kind k, in the order of the source text.
Succ(k) ==
    CASE k = "inexact" -> "underflow"
      [] k = "underflow" -> "overflow"
      [] k = "overflow" -> "divzero"
      [] k = "divzero" -> "invalid"
      [] k = "invalid" -> "ret"

\* The body without the conditional compilation.
EntryUnconditional(c) == "inexact"

\* The body without the __SH2E__ exclusion.
EntryNoSh2e(c) == IF c = "none" THEN "ret" ELSE "inexact"

\* The first test compiled into the body under configuration c.
Entry(c) ==
    CASE c = "full" -> "inexact"
      [] c = "sh2e" -> "divzero"
      [] c = "none" -> "ret"

\* Where control goes when the trap is not taken as a diversion.
TrapTargetResume(k) == Succ(k)

\* Where control goes when the instruction of kind k traps: away from the
\* routine, which raises only one signal at a time.
TrapTarget(k) == "trapped"

\* One test of the body, at position k, as a function of the routine's state.
CheckStep(k, m, en, st) ==
    IF Requested(m, Bit(k))
    THEN LET raised == Raised(k)
         IN  IF raised \cap en # {}
             THEN [pc |-> TrapTarget(k),
                   flag |-> st.flag,
                   traps |-> Append(st.traps, TrapKind(raised \cap en)),
                   trace |-> Append(st.trace, k)]
             ELSE [pc |-> Succ(k),
                   flag |-> SetFlags(st.flag, raised),
                   traps |-> st.traps,
                   trace |-> Append(st.trace, k)]
    ELSE [st EXCEPT !.pc = Succ(k)]

\* The whole invocation from state st, to its return or its trap.
RECURSIVE Run(_, _, _)
Run(m, en, st) ==
    IF st.pc \in Kinds THEN Run(m, en, CheckStep(st.pc, m, en, st)) ELSE st

Outcome(m, c, en, f) ==
    Run(m, en, [pc |-> Entry(c), flag |-> f, traps |-> <<>>, trace |-> <<>>])

----------------------------------------------------------------------------
(* The state machine *)

Init ==
    /\ fpu \in Configs
    /\ enable \in EnableFields
    /\ flag = {}
    /\ traps = <<>>
    /\ pc = "idle"
    /\ fex = 0
    /\ flag0 = {}
    /\ trace = <<>>
    /\ rep = FALSE
    /\ ncalls = 0

\* The caller invokes __sfp_handle_exceptions (m).
Call ==
    /\ pc \in {"idle", "ret"}
    /\ ncalls < MaxCalls
    /\ \E m \in Masks :
        /\ fex' = m
        /\ rep' = (ncalls > 0 /\ m = fex)
    /\ pc' = Entry(fpu)
    /\ flag0' = flag
    /\ trace' = <<>>
    /\ ncalls' = ncalls + 1
    /\ UNCHANGED <<fpu, enable, flag, traps>>

Check(k) ==
    /\ pc = k
    /\ LET r == CheckStep(k, fex, enable,
                          [pc |-> pc, flag |-> flag, traps |-> traps, trace |-> trace])
       IN  /\ pc' = r.pc
           /\ flag' = r.flag
           /\ traps' = r.traps
           /\ trace' = r.trace
    /\ UNCHANGED <<fpu, enable, fex, flag0, rep, ncalls>>

CheckInexact == Check("inexact")
CheckUnderflow == Check("underflow")
CheckOverflow == Check("overflow")
CheckDivzero == Check("divzero")
CheckInvalid == Check("invalid")

Body == CheckInexact \/ CheckUnderflow \/ CheckOverflow \/ CheckDivzero \/ CheckInvalid

Next == Call \/ Body

Spec == Init /\ [][Next]_vars

\* The routine is straight-line code: a test that is reached is executed.
FairSpec == Spec /\ WF_vars(Body)

----------------------------------------------------------------------------
(* Properties *)

Trapping == enable = Kinds
FlagsOnly == enable = {}
Finished == pc \in {"ret", "trapped"}

\* The kinds whose test is compiled in under configuration c.
Supported(c) ==
    CASE c = "full" -> Kinds
      [] c = "sh2e" -> {"divzero", "invalid"}
      [] c = "none" -> {}

\* Position of a kind in the sequence INEXACT, UNDERFLOW, OVERFLOW,
\* DIVIDE-BY-ZERO, INVALID.
Rank(k) ==
    CASE k = "inexact" -> 1
      [] k = "underflow" -> 2
      [] k = "overflow" -> 3
      [] k = "divzero" -> 4
      [] k = "invalid" -> 5

\* C1: on a trapping full-FPU configuration, a mask of exactly DIVIDE-BY-ZERO
\* and OVERFLOW has the divide-by-zero trap observed and never the overflow
\* trap.
C1_DivzeroTrapBeforeOverflow ==
    (fpu = "full" /\ Trapping /\ KindsOf(fex) = {"divzero", "overflow"})
        => /\ \A i \in 1 .. Len(traps) : traps[i] # "overflow"
           /\ Finished => traps = <<"divzero">>

C4_SingleKindOnlyItsFlag ==
    \A k \in Supported(fpu) :
        (fex = Bit(k) /\ flag0 = {} /\ Finished) =>
            /\ FlagsOnly => (pc = "ret" /\ flag = {k})
            /\ Trapping => traps = <<k>>

\* C4 as amended: from a cleared status register, a single-bit mask of a
\* supported kind leaves that kind's flag set on a flags-only configuration,
\* and no other flag except INEXACT when the kind is UNDERFLOW or OVERFLOW;
\* on a trapping configuration a trap of that kind is observed.
C4_SingleKindItsFlagAndInexact ==
    \A k \in Supported(fpu) :
        (fex = Bit(k) /\ flag0 = {} /\ Finished) =>
            /\ FlagsOnly =>
                   /\ pc = "ret"
                   /\ flag = {k} \cup (IF k \in {"underflow", "overflow"}
                                       THEN {"inexact"} ELSE {})
            /\ Trapping => traps = <<k>>

C4_Witness ==
    /\ fpu = "full"
    /\ FlagsOnly
    /\ fex = Bit("overflow")
    /\ flag0 = {}
    /\ pc = "ret"
    /\ flag = {"overflow", "inexact"}

C6_FlagsAccumulateAndReturn ==
    /\ []((fpu = "full" /\ FlagsOnly /\ pc = "ret") =>
              /\ KindsOf(fex) \subseteq flag
              /\ flag0 \subseteq flag
              /\ traps = <<>>
              /\ Len(trace) = Cardinality(KindsOf(fex)))
    /\ (fpu = "full" /\ FlagsOnly /\ pc = "inexact") ~> (pc = "underflow")
    /\ (fpu = "full" /\ FlagsOnly /\ pc = "underflow") ~> (pc = "overflow")
    /\ (fpu = "full" /\ FlagsOnly /\ pc = "overflow") ~> (pc = "divzero")
    /\ (fpu = "full" /\ FlagsOnly /\ pc = "divzero") ~> (pc = "invalid")
    /\ (fpu = "full" /\ FlagsOnly /\ pc = "invalid") ~> (pc = "ret")

C6_Witness ==
    /\ fpu = "full"
    /\ FlagsOnly
    /\ pc = "ret"
    /\ KindsOf(fex) = Kinds
    /\ flag = Kinds

\* The mask m with the INEXACT, UNDERFLOW and OVERFLOW bits cleared.
WithoutReduced(m) ==
    m - SumOf({Bit(k) : k \in KindsOf(m) \cap {"inexact", "underflow", "overflow"}})

\* C7: on the SH2E configuration a mask of only INEXACT, only UNDERFLOW or
\* only OVERFLOW executes no instruction and leaves flags and traps as they
\* were, and the DIVIDE-BY-ZERO and INVALID bits of a mask have the outcome
\* they have on a full unit.
C7_Sh2eReducedKinds ==
    fpu = "sh2e" =>
        /\ \A k \in {"inexact", "underflow", "overflow"} :
               (fex = Bit(k) /\ pc # "idle") =>
                   /\ trace = <<>>
                   /\ flag = flag0
                   /\ traps = <<>>
                   /\ pc # "trapped"
        /\ Finished =>
               LET r == Outcome(WithoutReduced(fex), "full", enable, flag0)
               IN  /\ pc = r.pc
                   /\ flag = r.flag
                   /\ traps = r.traps
                   /\ trace = r.trace

C7_Witness ==
    /\ fpu = "sh2e"
    /\ FlagsOnly
    /\ KindsOf(fex) = {"overflow", "divzero"}
    /\ pc = "ret"
    /\ trace = <<"divzero">>
    /\ flag = {"divzero"}

\* C8: on the configuration without FPU every mask executes no instruction,
\* leaves flags and traps as they were, delivers no trap and returns.
C8_NoFpuNoEffect ==
    fpu = "none" =>
        /\ trace = <<>>
        /\ flag = flag0
        /\ traps = <<>>
        /\ pc \in {"idle", "ret"}

C8_Witness ==
    /\ fpu = "none"
    /\ Trapping
    /\ KindsOf(fex) = Kinds
    /\ pc = "ret"

\* C9: on a flags-only configuration, a second invocation with the same
\* single-kind mask returns with the status the first invocation left.
C9_SecondCallSameStatus ==
    (FlagsOnly /\ rep /\ Cardinality(KindsOf(fex)) = 1 /\ pc = "ret")
        => (flag = flag0 /\ traps = <<>>)

C9_Witness ==
    /\ fpu = "full"
    /\ FlagsOnly
    /\ rep
    /\ fex = Bit("overflow")
    /\ pc = "ret"
    /\ trace = <<"overflow">>

\* C10: bits outside the five kinds are ignored: every mask that agrees with
\* the argument on the five bits has the same instructions executed and the
\* same outcome, and a mask with none of the five bits executes nothing and
\* returns.
C10_OtherBitsIgnored ==
    /\ Finished =>
           \A m \in Masks : KindsOf(m) = KindsOf(fex) =>
               LET r == Outcome(m, fpu, enable, flag0)
               IN  /\ r.pc = pc
                   /\ r.flag = flag
                   /\ r.traps = traps
                   /\ r.trace = trace
    /\ (KindsOf(fex) = {} /\ pc # "idle") =>
           /\ trace = <<>>
           /\ flag = flag0
           /\ traps = <<>>
           /\ pc # "trapped"

C10_Witness ==
    /\ fpu = "full"
    /\ fex = Bit("divzero") + 1
    /\ pc = "ret"
    /\ trace = <<"divzero">>

====
